---- MODULE Spec2Model ----
(***************************************************************************)
(* A state-machine model of importceptor.Importceptor: a context manager   *)
(* that installs _import_handler in the __builtin__.__import__ slot,       *)
(* passes first-level imports to the real import, answers nested imports   *)
(* from the replacements mapping, registers what it returns in sys.modules *)
(* and unloads the modules added during the block on exit.                 *)
(*                                                                         *)
(* The import machinery is re-entrant: the real import of a module runs    *)
(* the module's body, whose import statements call the slot again.  The    *)
(* model keeps the call stack explicitly: a "hook" frame per call of       *)
(* _import_handler in progress, a "load" frame per module body being       *)
(* executed by the real import, and `flow`, the value or exception being   *)
(* handed to the frame on top of the stack.                                *)
(*                                                                         *)
(* Not modelled: _verbose (it only prints), and globals/locals, which the  *)
(* hook passes on to the real import untouched.  Module names are          *)
(* top-level names; the import graph of the host modules is acyclic.       *)
(***************************************************************************)
EXTENDS Naturals, Integers, Sequences, FiniteSets, TLC

(***************************************************************************)
(* Bounds of the model.                                                    *)
(***************************************************************************)
\* Import statements the program itself executes (inside or outside blocks).
MaxStmts == 2
\* Activations (with-blocks) of the one Importceptor object.
MaxActivations == 2

(***************************************************************************)
(* Values.  Every Python object of the model is a record with an identity  *)
(* (`id`) and its attributes; `is` is equality of these records.           *)
(***************************************************************************)
NoAttrs == [a \in {} |-> 0]

None == [kind |-> "None", id |-> "None", attrs |-> NoAttrs]

Object(id) == [kind |-> "object", id |-> id, attrs |-> NoAttrs]

\* Bunch(**kwargs): an object whose attributes are the keyword arguments.
Bunch(id, kwargs) == [kind |-> "Bunch", id |-> id, attrs |-> kwargs]

\* getattr(obj, name) succeeds exactly when obj has the attribute.
hasattr(obj, name) == name \in DOMAIN obj.attrs

getattr(obj, name) == obj.attrs[name]

\* The elements of a fromlist.
Elems(seq) == {seq[i] : i \in 1..Len(seq)}

(***************************************************************************)
(* The host environment: the modules the real import can find, the import  *)
(* statements their bodies execute and the attributes they define.         *)
(***************************************************************************)
Imp(mod_name, fromlist, level) ==
    [mod_name |-> mod_name, fromlist |-> fromlist, level |-> level]

\* level's default in _import_handler's signature (Python 2: relative, then
\* absolute).
DefaultLevel == -1

\* mod1 ... mod4 and textwrap are the modules the tests import; broken is a
\* module whose body imports a module the host does not have.
HostModules ==
    {"mod1", "mod2", "mod3", "mod4", "broken", "os", "textwrap", "__future__"}

HostBody(mod_name) ==
    CASE mod_name = "mod1" -> << Imp("os", <<>>, DefaultLevel) >>
      [] mod_name = "mod2" -> << Imp("__future__", <<"absolute_import">>, DefaultLevel),
                                 Imp("mod1", <<>>, 0) >>
      [] mod_name = "broken" -> << Imp("os", <<>>, DefaultLevel),
                                   Imp("nosuch", <<>>, DefaultLevel) >>
      [] mod_name = "mod3" -> << Imp("textwrap", <<>>, DefaultLevel) >>
      [] mod_name = "mod4" -> << Imp("os", <<"path", "defpath">>, DefaultLevel) >>
      [] mod_name = "textwrap" -> << Imp("os", <<"path">>, DefaultLevel) >>
      [] OTHER -> << >>

HostAttrs(mod_name) ==
    CASE mod_name = "os" -> {"path", "defpath"}
      [] mod_name = "__future__" -> {"absolute_import"}
      [] OTHER -> {}

\* The module object the real import creates for mod_name.
Module(mod_name) ==
    [kind |-> "module", id |-> mod_name,
     attrs |-> [a \in HostAttrs(mod_name) |-> Object(mod_name \o "." \o a)]]

(***************************************************************************)
(* The replacement mappings and import statements the program may use.     *)
(***************************************************************************)
marker == Object("marker")

fake_os == Bunch("fake_os", [a \in {"path", "defpath"} |-> Object("fake_os." \o a)])

half_os == Bunch("half_os", [a \in {"path"} |-> Object("half_os." \o a)])

Empty == [k \in {} |-> None]

Replacements ==
    { Empty,
      "os" :> marker,
      "os" :> fake_os,
      ("os.path" :> Object("path")) @@ ("os.defpath" :> Object("defpath")),
      ("os.path" :> marker) @@ ("os" :> fake_os),
      ("os.path" :> marker) @@ ("os" :> half_os),
      "textwrap" :> None,
      ("mod1" :> None) @@ ("os" :> None) @@ ("nosuch" :> marker)
          @@ ("__future__" :> marker) }

ProgramStmts ==
    { Imp(n, <<>>, DefaultLevel) : n \in {"mod1", "mod2", "mod3", "mod4", "broken", "os"} }
    \cup { Imp("__future__", <<"absolute_import">>, DefaultLevel),
           Imp("mod1", <<"os">>, DefaultLevel) }

(***************************************************************************)
(* State.                                                                  *)
(***************************************************************************)
VARIABLES
    _replacements,      \* Importceptor._replacements
    _unload_modules,    \* Importceptor._unload_modules
    _strict,            \* Importceptor._strict
    _depth,             \* Importceptor._depth
    _real_import,       \* Importceptor._real_import
    _pre_modules,       \* Importceptor._pre_modules (None is the empty set)
    builtin_import,     \* the slot __builtin__.__import__
    sys_modules,        \* sys.modules
    phase,              \* where the program is relative to the with-block
    stack,              \* calls in progress, innermost last
    flow,               \* what is being handed to the top of the stack
    todo,               \* modules __exit__'s loop has still to unload
    nextid,             \* identities handed out to the Bunches the hook creates
    nstmts,             \* import statements the program has executed
    nacts,              \* activations so far
    last,               \* the call of _import_handler that ended last
    returned,           \* what nested hook calls returned in this activation
    reg_at_exit,        \* sys.modules when __exit__ was entered
    reg_at_enter,       \* sys.modules when __enter__ was entered
    made                \* the ids of the stand-ins the hook has returned so far

vars == << _replacements, _unload_modules, _strict, _depth, _real_import,
           _pre_modules, builtin_import, sys_modules, phase, stack, flow,
           todo, nextid, nstmts, nacts, last, returned, reg_at_exit,
           reg_at_enter, made >>

config == << _replacements, _unload_modules, _strict >>

REAL == "__import__"

HOOK == "_import_handler"

Run == [k |-> "run", v |-> None, e |-> ""]

Ret(v) == [k |-> "ret", v |-> v, e |-> ""]

Exc(e) == [k |-> "exc", v |-> None, e |-> e]

NoCall ==
    [mod_name |-> "", fromlist |-> <<>>, level |-> 0, depth |-> 0, mode |-> "none",
     out |-> "none", val |-> None, exc |-> "", real |-> FALSE,
     realargs |-> Imp("", <<>>, 0), base |-> None, hit |-> FALSE, looked |-> FALSE,
     got |-> FALSE]

Top == stack[Len(stack)]

Rest == SubSeq(stack, 1, Len(stack) - 1)

TopIs(f) == IF stack = << >> THEN FALSE ELSE Top.f = f

\* Importceptor.__init__: the arguments are the program's choice.
Init ==
    /\ _replacements \in Replacements
    /\ _unload_modules \in BOOLEAN
    /\ _strict \in BOOLEAN
    /\ _depth = 0
    /\ _real_import = "None"
    /\ _pre_modules = {}
    /\ builtin_import = REAL
    /\ sys_modules = ("sys" :> Module("sys"))
    /\ phase = "outside"
    /\ stack = << >>
    /\ flow = Run
    /\ todo = {}
    /\ nextid = 1
    /\ nstmts = 0
    /\ nacts = 0
    /\ last = NoCall
    /\ returned = Empty
    /\ reg_at_exit = Empty
    /\ reg_at_enter = Empty
    /\ made = {}

(***************************************************************************)
(* The registry helpers.                                                   *)
(***************************************************************************)
\* _get_current_loaded_modules(): set(sys.modules.keys())
_get_current_loaded_modules == DOMAIN sys_modules

\* A hook that returns without registering.
_register_module_skipped(name, mod) == sys_modules

\* _register_module(name, mod): sys.modules[name] = mod
_register_module(name, mod) == (name :> mod) @@ sys_modules

\* dict.pop(mod_name, None): no error when mod_name is absent.
Without(modules, mod_name) == [m \in DOMAIN modules \ {mod_name} |-> modules[m]]

\* _unload_module(mod_name): sys.modules.pop(mod_name, None)
_unload_module(mod_name) == Without(sys_modules, mod_name)

(***************************************************************************)
(* The real import, __builtin__.__import__ of Python 2, as far as the hook *)
(* depends on it: a name in sys.modules is answered from there (a None     *)
(* entry means "no such module"), a name the host does not know is an      *)
(* ImportError, any other name is loaded: the new module is put in         *)
(* sys.modules and its body is executed, its imports going through the     *)
(* slot.                                                                   *)
(***************************************************************************)
RealOutcome(mod_name) ==
    IF mod_name \in DOMAIN sys_modules
    THEN IF sys_modules[mod_name] = None THEN "ImportError" ELSE "cached"
    ELSE IF mod_name \in HostModules THEN "load" ELSE "ImportError"

RealCall(stk, args) ==
    LET o == RealOutcome(args.mod_name) IN
    /\ stack' = IF o = "load"
                THEN Append(stk, [f |-> "load", mod_name |-> args.mod_name, pc |-> 1])
                ELSE stk
    /\ flow' = CASE o = "load" -> Run
                 [] o = "cached" -> Ret(sys_modules[args.mod_name])
                 [] OTHER -> Exc("ImportError")
    /\ sys_modules' = IF o = "load"
                      THEN (args.mod_name :> Module(args.mod_name)) @@ sys_modules
                      ELSE sys_modules

(***************************************************************************)
(* _import_handler and the methods it calls.                               *)
(***************************************************************************)
\* A hook without the __future__ case.
ModeWithoutFuture(mod_name) == IF _depth = 0 THEN "first" ELSE "repl"

\* A hook without the depth == 0 case.
ModeWithoutFirstLevel(mod_name) ==
    IF mod_name = "__future__" THEN "future" ELSE "repl"

\* _import_handler's dispatch: __future__ goes to the real import, depth 0 is
\* a first-level import, anything deeper is answered with replacements.
Mode(mod_name) ==
    IF mod_name = "__future__" THEN "future"
    ELSE IF _depth = 0 THEN "first" ELSE "repl"

\* A lookup that tries the real import first when not on strict mode.
_get_replacement_for_module_real_first(mod_name) ==
    IF ~_strict THEN "real"
    ELSE IF mod_name \in DOMAIN _replacements THEN "found" ELSE "KeyError"

\* A lookup that raises for a missing name whatever the strict flag.
_get_replacement_for_module_always_strict(mod_name) ==
    IF mod_name \in DOMAIN _replacements THEN "found" ELSE "KeyError"

\* A lookup that never raises.
_get_replacement_for_module_never_strict(mod_name) ==
    IF mod_name \in DOMAIN _replacements THEN "found" ELSE "real"

\* _get_replacement_for_module: the replacement when there is one, KeyError on
\* strict mode, the real import otherwise.
_get_replacement_for_module(mod_name) ==
    IF mod_name \in DOMAIN _replacements THEN "found"
    ELSE IF _strict THEN "KeyError" ELSE "real"

\* mod_name + '.' + var_name
FullName(mod_name, var_name) == mod_name \o "." \o var_name

\* Full names that yield to a replacement of the whole module.
available_unless_module(mod_name, fromlist) ==
    {a \in Elems(fromlist) : /\ FullName(mod_name, a) \in DOMAIN _replacements
                             /\ mod_name \notin DOMAIN _replacements}

\* The names of fromlist whose full name is in the replacements ...
available(mod_name, fromlist) ==
    {a \in Elems(fromlist) : FullName(mod_name, a) \in DOMAIN _replacements}

\* A from-list path that asks the module for nothing.
not_available_none(mod_name, fromlist) == {}

\* ... and those whose full name is not.
not_available(mod_name, fromlist) ==
    {a \in Elems(fromlist) : FullName(mod_name, a) \notin DOMAIN _replacements}

\* A hook that keeps one stand-in per module name.
_create_bunch_cached(mod_name, fromlist) ==
    Bunch("fake_mod_" \o mod_name,
          [a \in available(mod_name, fromlist) |-> _replacements[FullName(mod_name, a)]])

\* fake_mod = self._create_bunch(**{name: self._replacements[full_name] ...}):
\* a new object at every call.
_create_bunch(mod_name, fromlist) ==
    Bunch("fake_mod" \o ToString(nextid),
          [a \in available(mod_name, fromlist) |-> _replacements[FullName(mod_name, a)]])

\* getattr(module, name) succeeds for every name that was not available.
CanFill(module, mod_name, fromlist) ==
    \A a \in not_available(mod_name, fromlist) : hasattr(module, a)

\* fake_mod.__dict__.update((name, getattr(module, name)) for name in not_available)
Filled(fake_mod, module, mod_name, fromlist) ==
    [fake_mod EXCEPT !.attrs =
        [a \in DOMAIN fake_mod.attrs \cup not_available(mod_name, fromlist) |->
            IF a \in not_available(mod_name, fromlist)
            THEN getattr(module, a) ELSE fake_mod.attrs[a]]]

\* The arguments the hook hands to the real import: on the from-list path
\* _get_replacement_for_module is called with [] for fromlist.
RealArgs(stmt, selective) ==
    IF selective THEN Imp(stmt.mod_name, << >>, stmt.level) ELSE stmt

\* The call of _import_handler up to the point where it has a base value, an
\* exception, or a module body to wait for.
_import_handler(stmt) ==
    LET mode == Mode(stmt.mod_name)
        selective == mode = "repl" /\ stmt.fromlist # << >>
        how == IF mode = "repl" THEN _get_replacement_for_module(stmt.mod_name) ELSE "real"
        args == RealArgs(stmt, selective)
        frame == [f |-> "hook", mod_name |-> stmt.mod_name, fromlist |-> stmt.fromlist,
                  level |-> stmt.level, mode |-> mode, depth |-> _depth,
                  fake_mod |-> IF selective THEN _create_bunch(stmt.mod_name, stmt.fromlist)
                               ELSE None,
                  real |-> how = "real",
                  realargs |-> IF how = "real" THEN args ELSE NoCall.realargs,
                  hit |-> stmt.mod_name \in DOMAIN sys_modules,
                  looked |-> mode = "repl"]
    IN  /\ _depth' = IF mode = "future" THEN _depth ELSE _depth + 1
        /\ nextid' = IF selective THEN nextid + 1 ELSE nextid
        /\ CASE how = "real" -> RealCall(Append(stack, frame), args)
             [] how = "found" ->
                    /\ stack' = Append(stack, frame)
                    /\ flow' = Ret(_replacements[stmt.mod_name])
                    /\ UNCHANGED sys_modules
             [] OTHER ->
                    /\ stack' = Append(stack, frame)
                    /\ flow' = Exc(how)
                    /\ UNCHANGED sys_modules

\* An import statement calls whatever is in the slot.
Import(stmt) ==
    IF builtin_import = HOOK
    THEN _import_handler(stmt)
    ELSE RealCall(stack, stmt) /\ UNCHANGED << _depth, nextid >>

\* The record of a finished hook call; got tells that the lookup of the
\* module name gave the call a base value.
Ended(fr, out, val, exc, base, got) ==
    [mod_name |-> fr.mod_name, fromlist |-> fr.fromlist, level |-> fr.level,
     depth |-> fr.depth, mode |-> fr.mode, out |-> out, val |-> val, exc |-> exc,
     real |-> fr.real, realargs |-> fr.realargs, base |-> base, hit |-> fr.hit,
     looked |-> fr.looked, got |-> got]

\* A depth manager whose decrement is skipped when the wrapped call raises.
DepthAfterUnlessError(mode) ==
    IF mode = "future" \/ flow.k = "exc" THEN _depth ELSE _depth - 1

\* _DepthManager.__exit__, for the calls that entered one.
DepthAfter(mode) == IF mode = "future" THEN _depth ELSE _depth - 1

\* A hook whose registration also runs when the call raised.
RegistryAfterAlways(fr, raised, mod) ==
    IF fr.mode = "repl" THEN _register_module(fr.mod_name, mod) ELSE sys_modules

\* sys.modules when a hook call ends: self._register_module(mod_name, mod)
\* comes after _process_import_with_replacements has returned mod, on the
\* nested path only.
RegistryAfter(fr, raised, mod) ==
    IF fr.mode = "repl" /\ ~raised THEN _register_module(fr.mod_name, mod)
    ELSE sys_modules

\* The rest of _import_handler once the base value is there: the from-list
\* path fills fake_mod from it, the depth manager exits, a nested call
\* registers what it returns.
HookReturn ==
    /\ flow.k = "ret"
    /\ TopIs("hook")
    /\ LET fr == Top
           base == flow.v
           selective == fr.mode = "repl" /\ fr.fromlist # << >>
           fails == selective /\ ~CanFill(base, fr.mod_name, fr.fromlist)
           mod == IF selective
                  THEN Filled(fr.fake_mod, base, fr.mod_name, fr.fromlist)
                  ELSE base
       IN  /\ stack' = Rest
           /\ _depth' = DepthAfter(fr.mode)
           /\ IF fails
              THEN /\ flow' = Exc("AttributeError")
                   /\ last' = Ended(fr, "exc", None, "AttributeError", base, TRUE)
                   /\ sys_modules' = RegistryAfter(fr, TRUE, fr.fake_mod)
                   /\ UNCHANGED returned
              ELSE /\ flow' = Ret(mod)
                   /\ last' = Ended(fr, "ret", mod, "", base, TRUE)
                   /\ sys_modules' = RegistryAfter(fr, FALSE, mod)
                   /\ returned' = IF fr.mode = "repl"
                                  THEN (fr.mod_name :> mod) @@ returned
                                  ELSE returned
           /\ made' = IF selective /\ ~fails THEN made \cup {mod.id} ELSE made
    /\ UNCHANGED << config, _real_import, _pre_modules, builtin_import, phase, todo,
                    nextid, nstmts, nacts, reg_at_exit, reg_at_enter >>

\* A hook call that answers None when the code it called raised.
PropagatedSwallowed(f) == Ret(None)

\* What an exception raised under a hook call is when the call ends: no
\* except clause of the hook encloses the calls that raise, and
\* _DepthManager.__exit__ returns None, so it is the same exception.
Propagated(f) == f

\* An exception leaves the innermost call: a hook call only leaves its depth
\* manager, the real import drops the module whose body failed.
Unwind ==
    /\ flow.k = "exc"
    /\ stack # << >>
    /\ stack' = Rest
    /\ IF Top.f = "hook"
       THEN /\ _depth' = DepthAfter(Top.mode)
            /\ flow' = Propagated(flow)
            /\ last' = Ended(Top, "exc", None, flow.e, None, FALSE)
            /\ sys_modules' = RegistryAfter(Top, TRUE, None)
       ELSE /\ sys_modules' = Without(sys_modules, Top.mod_name)
            /\ UNCHANGED << _depth, flow, last >>
    /\ UNCHANGED << config, _real_import, _pre_modules, builtin_import, phase,
                    todo, nextid, nstmts, nacts, returned, reg_at_exit,
                    reg_at_enter, made >>

\* The import statement has its value: the importing code goes on.
Deliver ==
    /\ flow.k = "ret"
    /\ ~TopIs("hook")
    /\ flow' = Run
    /\ stack' = IF stack = << >> THEN stack
                ELSE [stack EXCEPT ![Len(stack)].pc = @ + 1]
    /\ UNCHANGED << config, _depth, _real_import, _pre_modules, builtin_import,
                    sys_modules, phase, todo, nextid, nstmts, nacts, last, returned,
                    reg_at_exit,
                    reg_at_enter, made >>

\* The real import has executed the whole body: it returns sys.modules[name].
LoadDone ==
    /\ flow.k = "run"
    /\ TopIs("load")
    /\ Top.pc > Len(HostBody(Top.mod_name))
    /\ stack' = Rest
    /\ flow' = Ret(sys_modules[Top.mod_name])
    /\ UNCHANGED << config, _depth, _real_import, _pre_modules, builtin_import,
                    sys_modules, phase, todo, nextid, nstmts, nacts, last, returned,
                    reg_at_exit,
                    reg_at_enter, made >>

\* The body of the module being loaded executes its next import statement.
NestedImport ==
    /\ flow.k = "run"
    /\ TopIs("load")
    /\ Top.pc <= Len(HostBody(Top.mod_name))
    /\ Import(HostBody(Top.mod_name)[Top.pc])
    /\ UNCHANGED << config, _real_import, _pre_modules, builtin_import, phase, todo,
                    nstmts, nacts, last, returned, reg_at_exit, reg_at_enter, made >>

(***************************************************************************)
(* The program: import statements inside and outside the with-block, the   *)
(* block raising, the program catching.                                    *)
(***************************************************************************)
ProgramImport ==
    \E stmt \in ProgramStmts :
        /\ flow.k = "run" /\ stack = << >>
        /\ phase \in {"outside", "exited", "inside"}
        /\ nstmts < MaxStmts
        /\ Import(stmt)
        /\ nstmts' = nstmts + 1
        /\ phase' = IF phase = "exited" THEN "outside" ELSE phase
        /\ returned' = IF phase = "exited" THEN Empty ELSE returned
        /\ reg_at_exit' = IF phase = "exited" THEN Empty ELSE reg_at_exit
        /\ reg_at_enter' = IF phase = "exited" THEN Empty ELSE reg_at_enter
        /\ UNCHANGED made
        /\ UNCHANGED << config, _real_import, _pre_modules, builtin_import, todo,
                        nacts, last >>

BlockRaise ==
    /\ flow.k = "run" /\ stack = << >> /\ phase = "inside"
    /\ flow' = Exc("BlockError")
    /\ UNCHANGED << config, _depth, _real_import, _pre_modules, builtin_import,
                    sys_modules, phase, stack, todo, nextid, nstmts, nacts, last,
                    returned, reg_at_exit, reg_at_enter, made >>

Catch ==
    /\ flow.k = "exc" /\ stack = << >>
    /\ phase \in {"outside", "exited", "inside"}
    /\ flow' = Run
    /\ UNCHANGED << config, _depth, _real_import, _pre_modules, builtin_import,
                    sys_modules, phase, stack, todo, nextid, nstmts, nacts, last,
                    returned, reg_at_exit, reg_at_enter, made >>

(***************************************************************************)
(* Importceptor.__enter__ and __exit__.                                    *)
(***************************************************************************)
__enter__ ==
    /\ flow.k = "run" /\ stack = << >>
    /\ phase \in {"outside", "exited"}
    /\ nacts < MaxActivations
    /\ _pre_modules' = _get_current_loaded_modules
    /\ _real_import' = builtin_import
    /\ builtin_import' = HOOK
    /\ phase' = "inside"
    /\ nacts' = nacts + 1
    /\ returned' = Empty
    /\ reg_at_exit' = Empty
    /\ reg_at_enter' = sys_modules
    /\ UNCHANGED made
    /\ UNCHANGED << config, _depth, sys_modules, stack, flow, todo, nextid, nstmts,
                    last >>

\* A restoration that is skipped when the block raised.
RestoredImportUnlessError ==
    IF flow.k = "exc" THEN builtin_import ELSE _real_import

\* __builtin__.__import__ = self._real_import
RestoredImport == _real_import

\* An __exit__ that restores the slot after the unload loop.
ExitSlotRestoredLast(step) ==
    IF step = "done" THEN RestoredImport ELSE builtin_import

\* The slot after each step of __exit__: the restoration is its first
\* statement, the unload loop and the return leave the slot alone.
ExitSlot(step) ==
    IF step = "entry" THEN RestoredImport ELSE builtin_import

\* The difference taken the wrong way round.
ModulesToUnloadReversed ==
    IF _unload_modules THEN _pre_modules \ _get_current_loaded_modules ELSE {}

\* An unload that ignores unload_modules.
ModulesToUnloadAlways == _get_current_loaded_modules \ _pre_modules

\* for mod in self._get_current_loaded_modules() - self._pre_modules
ModulesToUnload ==
    IF _unload_modules THEN _get_current_loaded_modules \ _pre_modules ELSE {}

\* __exit__ runs when the block ends, with or without an exception in flight:
\* it restores the slot, then starts the unload loop.
__exit__ ==
    /\ stack = << >> /\ phase = "inside"
    /\ builtin_import' = ExitSlot("entry")
    /\ todo' = ModulesToUnload
    /\ reg_at_exit' = sys_modules
    /\ phase' = "exiting"
    /\ UNCHANGED << config, _depth, _real_import, _pre_modules, sys_modules, stack,
                    flow, nextid, nstmts, nacts, last, returned, reg_at_enter, made >>

\* One turn of the loop: self._unload_module(mod)
UnloadOne ==
    \E mod \in todo :
        /\ phase = "exiting"
        /\ sys_modules' = _unload_module(mod)
        /\ todo' = todo \ {mod}
        /\ builtin_import' = ExitSlot("loop")
        /\ UNCHANGED << config, _depth, _real_import, _pre_modules,
                        phase, stack, flow, nextid, nstmts, nacts, last, returned,
                        reg_at_exit,
                    reg_at_enter, made >>

\* __exit__ returns None: an exception in flight goes on to the program.
ExitDone ==
    /\ phase = "exiting" /\ todo = {}
    /\ phase' = "exited"
    /\ builtin_import' = ExitSlot("done")
    /\ UNCHANGED << config, _depth, _real_import, _pre_modules,
                    sys_modules, stack, flow, todo, nextid, nstmts, nacts, last,
                    returned, reg_at_exit, reg_at_enter, made >>

Next ==
    \/ ProgramImport
    \/ NestedImport
    \/ HookReturn
    \/ LoadDone
    \/ Deliver
    \/ Unwind
    \/ BlockRaise
    \/ Catch
    \/ __enter__
    \/ __exit__
    \/ UnloadOne
    \/ ExitDone

Spec == Init /\ [][Next]_vars

(***************************************************************************)
(* Properties.                                                             *)
(***************************************************************************)
Range(f) == {f[k] : k \in DOMAIN f}

\* The last hook call that ended was a first-level one (made at depth 0).
LastFirstLevel ==
    last.out # "none" /\ last.depth = 0 /\ last.mod_name # "__future__"

\* The last hook call that ended was a nested one (made at depth > 0).
LastNested ==
    last.out # "none" /\ last.depth > 0 /\ last.mod_name # "__future__"

\* C1: with unload_modules, the keys of sys.modules after __exit__ are exactly
\* the keys of the snapshot __enter__ took, whatever was imported in the block
\* and however the block ended.
C1_UnloadRestoresKeys ==
    phase = "exited" /\ _unload_modules => DOMAIN sys_modules = _pre_modules

\* C1's case: the block ended with an exception after nested imports had been
\* registered under keys that were not in the snapshot.
C1_Witness ==
    /\ phase = "exited" /\ _unload_modules
    /\ flow.k = "exc"
    /\ DOMAIN returned \ _pre_modules # {}
    /\ DOMAIN reg_at_exit \ (DOMAIN returned \cup _pre_modules) # {}

\* C2: after __exit__ the slot __builtin__.__import__ holds what __enter__
\* saved, the real import, on every way out of the block.
C2_ResolverRestored ==
    /\ phase \in {"exiting", "exited"} => builtin_import = _real_import
    /\ phase # "inside" => builtin_import = REAL

\* C2's case: the block was left by the KeyError of a strict lookup.
C2_Witness ==
    phase = "exited" /\ flow = Exc("KeyError") /\ last.depth = 0

C4_BareKeyReturnsReplacement ==
    LastNested /\ last.fromlist = << >> /\ last.mod_name \in DOMAIN _replacements =>
        /\ last.out = "ret"
        /\ last.val = _replacements[last.mod_name]
        /\ ~last.real

\* C4's case: the replacement returned is None.
C4_Witness ==
    /\ LastNested /\ last.fromlist = << >>
    /\ last.mod_name \in DOMAIN _replacements
    /\ last.out = "ret" /\ last.val = None

\* C5: on a nested import with a fromlist that returns, each requested
\* attribute of the returned object is the replacement of its full name when
\* there is one, else the attribute of the module's replacement when there
\* is one, else (not strict) the attribute of the real import's result.
C5_FromListPrecedence ==
    LastNested /\ last.fromlist # << >> /\ last.out = "ret" =>
        \A a \in Elems(last.fromlist) :
            /\ hasattr(last.val, a)
            /\ IF FullName(last.mod_name, a) \in DOMAIN _replacements
               THEN getattr(last.val, a) = _replacements[FullName(last.mod_name, a)]
               ELSE IF last.mod_name \in DOMAIN _replacements
               THEN /\ hasattr(_replacements[last.mod_name], a)
                    /\ getattr(last.val, a) = getattr(_replacements[last.mod_name], a)
               ELSE /\ ~_strict
                    /\ last.real
                    /\ last.realargs.mod_name = last.mod_name
                    /\ hasattr(last.base, a)
                    /\ getattr(last.val, a) = getattr(last.base, a)

\* C5's case: the full name of one requested attribute and the module itself
\* are both keys, and another requested attribute has only the module's key.
C5_Witness ==
    /\ LastNested /\ last.out = "ret"
    /\ last.fromlist = << "path", "defpath" >>
    /\ last.mod_name \in DOMAIN _replacements
    /\ FullName(last.mod_name, "path") \in DOMAIN _replacements
    /\ FullName(last.mod_name, "defpath") \notin DOMAIN _replacements

\* C6 as claimed: when the full name of every requested attribute is a key of
\* the replacements, the nested import returns the stand-in without looking
\* the module name up and without calling the real import.
C6_AllExplicitSkipsLookup ==
    LastNested /\ last.fromlist # << >>
               /\ not_available(last.mod_name, last.fromlist) = {} =>
        /\ last.out = "ret"
        /\ ~last.looked
        /\ ~last.real

\* C7: not strict, a nested import without fromlist of a name that is not a
\* key is handed to the real import with the same arguments and returns what
\* the real import returns.
C7_FallbackUnmodified ==
    ~_strict /\ LastNested /\ last.fromlist = << >>
             /\ last.mod_name \notin DOMAIN _replacements =>
        /\ last.real
        /\ last.realargs = Imp(last.mod_name, last.fromlist, last.level)
        /\ last.out = "ret" => last.val = last.base
        /\ last.out = "ret" /\ ~last.hit => last.val = Module(last.mod_name)

\* C7's case: the real module os came back from a nested import.
C7_Witness ==
    /\ ~_strict /\ LastNested /\ last.fromlist = << >>
    /\ last.mod_name \notin DOMAIN _replacements
    /\ last.out = "ret" /\ last.val = Module("os")

\* C8: on strict mode a nested import of a name that is not a key ends with
\* KeyError without a call of the real import, and the KeyError is in flight
\* through every enclosing call until the first-level import has ended; not
\* on strict mode the same import goes to the real import and ends as the
\* real import does.
C8_StrictMissingRaises ==
    /\ _strict /\ LastNested /\ last.mod_name \notin DOMAIN _replacements =>
          /\ last.out = "exc"
          /\ last.exc = "KeyError"
          /\ ~last.real
    /\ LastNested /\ last.exc = "KeyError" =>
          /\ flow = Exc("KeyError")
          /\ stack # << >>
    /\ ~_strict /\ LastNested /\ last.mod_name \notin DOMAIN _replacements =>
          /\ last.real
          /\ last.exc # "KeyError"
          /\ last.fromlist = << >> /\ last.out = "ret" => last.val = last.base

\* C8's case: the KeyError of a nested strict lookup has reached the block.
C8_Witness ==
    /\ _strict /\ phase = "inside"
    /\ stack = << >>
    /\ flow = Exc("KeyError")
    /\ LastFirstLevel /\ last.exc = "KeyError"

\* C9: without unload_modules, __exit__ leaves sys.modules as the block left
\* it: every key added in the block is still there with its value.
C9_NoUnloadKeepsRegistry ==
    phase \in {"exiting", "exited"} /\ ~_unload_modules => sys_modules = reg_at_exit

\* C9's case: after __exit__ the registry still holds a module the real import
\* loaded in the block and a replacement the hook registered.
C9_Witness ==
    /\ phase = "exited" /\ ~_unload_modules
    /\ DOMAIN returned \ _pre_modules # {}
    /\ DOMAIN sys_modules \ (DOMAIN returned \cup _pre_modules) # {}

\* C10: in the block, sys.modules maps every name a nested import has returned
\* a value for to the value the latest such import returned.
C10_ReturnedIsRegistered ==
    phase = "inside" =>
        \A n \in DOMAIN returned :
            n \in DOMAIN sys_modules /\ sys_modules[n] = returned[n]

\* C10's case: the value registered is a stand-in the hook built, and the
\* block has gone on after the import.
C10_Witness ==
    /\ phase = "inside" /\ stack = << >> /\ flow.k = "run"
    /\ "os" \in DOMAIN returned
    /\ returned["os"].kind = "Bunch"
    /\ returned["os"] \notin Range(_replacements)
    /\ "textwrap" \in DOMAIN returned

\* A call of _import_handler ends in this step.
HookEnds == TopIs("hook") /\ stack' = Rest

\* C11: a hook call for __future__, at any depth, whatever the mapping and the
\* strict flag, is handed to the real import with its own arguments and
\* returns the real import's result; it ends at the depth it was made at,
\* leaves the depth alone and writes nothing to sys.modules.
C11_FutureDelegated ==
    [][HookEnds /\ Top.mod_name = "__future__" =>
          /\ Top.real
          /\ ~Top.looked
          /\ Top.realargs = Imp(Top.mod_name, Top.fromlist, Top.level)
          /\ flow.k = "ret" => flow' = flow
          /\ flow.k = "ret" /\ ~Top.hit => flow.v = Module("__future__")
          /\ _depth = Top.depth
          /\ _depth' = _depth
          /\ sys_modules' = sys_modules]_vars

\* C11's case: a nested import of __future__ on strict mode, with __future__ a
\* key of the mapping, returned the real module.
C11_Witness ==
    /\ last.mod_name = "__future__" /\ last.depth > 0
    /\ _strict
    /\ "__future__" \in DOMAIN _replacements
    /\ last.out = "ret" /\ last.val = Module("__future__")

\* The calls of _import_handler in progress, __future__ calls excluded.
Dispatches ==
    {i \in 1..Len(stack) : stack[i].f = "hook" /\ stack[i].mod_name # "__future__"}

\* C12: _depth is never negative and is the number of hook dispatches in
\* progress; it is 0 whenever no import is in progress, so at __enter__ (of
\* a first or a later activation) and at __exit__, also after dispatches that
\* ended with an exception.
C12_DepthCountsDispatches ==
    /\ _depth \in Nat
    /\ _depth = Cardinality(Dispatches)
    /\ stack = << >> => _depth = 0
    /\ phase \in {"exiting", "exited"} => _depth = 0

\* C12's case: the object is activated again after a dispatch of the first
\* activation ended with an exception.
C12_Witness ==
    /\ phase = "inside" /\ nacts = 2
    /\ stack = << >> /\ nstmts = 1
    /\ last.out = "exc"
    /\ _depth = 0

\* C13: in __exit__ the slot is restored before anything is unloaded and
\* before an exception of the block goes on: the hook is never in the slot
\* once an entry of sys.modules has been unloaded or the exception has left
\* the with-statement.
C13_RestoredBeforeUnload ==
    /\ phase = "exiting" /\ sys_modules # reg_at_exit => builtin_import = REAL
    /\ phase = "exiting" /\ todo # ModulesToUnload => builtin_import = REAL
    /\ phase = "exited" /\ flow.k = "exc" => builtin_import = REAL

\* C13's case: the block raised, __exit__ has unloaded one module and has more
\* to unload.
C13_Witness ==
    /\ phase = "exiting"
    /\ flow.k = "exc"
    /\ sys_modules # reg_at_exit
    /\ todo # {}

\* C14: a nested import with a fromlist whose module lookup gave a base value
\* that lacks a requested attribute with no replacement of its own ends with
\* AttributeError, which is in flight towards the importing code; a nested
\* import with a fromlist never returns an object that lacks a requested name.
C14_MissingAttributeRaises ==
    LastNested /\ last.fromlist # << >> /\ last.got =>
        LET deferred == {a \in Elems(last.fromlist) :
                            FullName(last.mod_name, a) \notin DOMAIN _replacements}
        IN  /\ (\E a \in deferred : ~hasattr(last.base, a)) =>
                    /\ last.out = "exc"
                    /\ last.exc = "AttributeError"
                    /\ flow = Exc("AttributeError")
                    /\ stack # << >>
            /\ last.out = "ret" =>
                    \A a \in Elems(last.fromlist) : hasattr(last.val, a)

\* C14's case: the replacement of the module has one of the two requested
\* attributes only, and the import of it has just failed.
C14_Witness ==
    /\ LastNested /\ last.got
    /\ last.fromlist = << "path", "defpath" >>
    /\ last.base = half_os
    /\ last.out = "exc" /\ last.exc = "AttributeError"
    /\ flow = Exc("AttributeError")

\* C15: an exception in flight under a call, the real import's ImportError
\* among them, leaves the innermost call as the same exception: a hook call
\* it passes through ends with that exception, at depth 0 as at any depth,
\* and the statement that comes next in the importing code is not executed.
C15_RealErrorPropagates ==
    [][flow.k = "exc" /\ stack # << >> =>
          /\ flow' = flow
          /\ stack' = Rest
          /\ Top.f = "hook" =>
                /\ last'.mod_name = Top.mod_name
                /\ last'.depth = Top.depth
                /\ last'.out = "exc"
                /\ last'.exc = flow.e]_vars

\* C15's case: the real import failed on the second import of the module the
\* block imports, and the ImportError has reached the block through the nested
\* and the first-level hook call.
C15_Witness ==
    /\ phase = "inside" /\ stack = << >>
    /\ flow = Exc("ImportError")
    /\ LastFirstLevel /\ last.mod_name = "broken"
    /\ last.out = "exc" /\ last.exc = "ImportError"
    /\ ~_strict /\ "nosuch" \notin DOMAIN _replacements
    /\ "broken" \notin DOMAIN sys_modules

\* C16 as claimed: with unload_modules, every entry sys.modules had when
\* __enter__ ran is there with the same value after __exit__.
C16_PreexistingValuesRestored ==
    phase = "exited" /\ _unload_modules =>
        \A n \in DOMAIN reg_at_enter :
            /\ n \in DOMAIN sys_modules
            /\ sys_modules[n] = reg_at_enter[n]

\* C17: the step that ends a nested hook call with an exception (KeyError on
\* strict mode, AttributeError of a missing attribute, an exception of the
\* real import) leaves sys.modules as it is: the registration of line 90 is
\* not executed and fake_mod is not registered.
C17_FailedCallRegistersNothing ==
    [][HookEnds /\ Top.depth > 0 /\ flow'.k = "exc" => sys_modules' = sys_modules]_vars

\* C17's case: a nested import with a fromlist has built fake_mod, failed on a
\* missing attribute, and the name is a key of sys.modules only if it was
\* before the call.
C17_Witness ==
    /\ LastNested /\ last.got
    /\ last.fromlist # << >>
    /\ last.out = "exc" /\ last.exc = "AttributeError"
    /\ (last.mod_name \in DOMAIN sys_modules) = last.hit

\* C18: the object a nested import with a fromlist returns has exactly the
\* requested names as attributes, and it is a new object: not one the hook
\* returned before, not the base value, not a value of the replacements and
\* not a value that was in sys.modules.
C18_StandInExactAndFresh ==
    [][/\ HookEnds
       /\ Top.depth > 0 /\ Top.mod_name # "__future__" /\ Top.fromlist # << >>
       /\ flow'.k = "ret"
       =>
       /\ flow'.v.kind = "Bunch"
       /\ DOMAIN flow'.v.attrs = Elems(Top.fromlist)
       /\ flow'.v.id \notin made
       /\ \A o \in {flow.v} \cup Range(_replacements) \cup Range(sys_modules) :
              o.id # flow'.v.id]_vars

\* C18's case: the hook has returned two stand-ins, the last one for a from-list
\* of one name taken from a base value that has more attributes.
C18_Witness ==
    /\ Cardinality(made) = 2
    /\ LastNested /\ last.out = "ret"
    /\ last.fromlist = << "path" >>
    /\ DOMAIN last.base.attrs = {"path", "defpath"}
    /\ last.val.id \in made

====
